---- MODULE Spec2Model ----
(***************************************************************************)
(* A model of src/src/lib.rs: the Blob type (a shared list of byte         *)
(* segments, options, and an optional absolute window), its slice, size    *)
(* and text operations, the private coalesce routine, and the line-ending  *)
(* normalizer normalize_line_endings.                                      *)
(*                                                                         *)
(* Bytes are integers 0..255.  A Rust Option<T> is a set with at most one  *)
(* element: {} is None and {x} is Some(x).                                 *)
(*                                                                         *)
(* A usize keeps its width: a value x >= 2^63 is written as the negative   *)
(* integer x - 2^64 (its two's complement reading), so that wrapping       *)
(* subtraction is integer subtraction and the order of two usize values    *)
(* is the unsigned order ULt below.                                        *)
(***************************************************************************)
EXTENDS Integers, Sequences, FiniteSets, TLC

\* ------------------------------------------------------------------ bounds

\* Largest number of segments handed to Blob::new.
MaxParts == 2

\* Largest total number of bytes in the segments handed to Blob::new.
MaxTotal == 2

\* Largest start or end offset handed to Blob::slice.
MaxIdx == 2

\* Largest length of a text handed to the normalizer specification.
MaxText == 5

\* Largest distance below 2^64 of a window end that wrapped around.
MaxWrap == 1

\* ------------------------------------------------------------------ bytes

CR == 13
LF == 10

\* The bytes the blob specification draws from: \n and the two bytes of the
\* character U+00E9 (0xC3 0xA9), each of which is invalid on its own.
BlobBytes == {LF, 195, 169}

\* The bytes the normalizer specification draws from: \r, \n and "a".
TextBytes == {CR, LF, 97}

SeqsUpTo(S, n) == UNION {[1..k -> S] : k \in 0..n}

RECURSIVE Concat(_)
\* The in-order concatenation of a list of segments.
Concat(parts) ==
    IF parts = <<>> THEN <<>> ELSE Head(parts) \o Concat(Tail(parts))

Zeros(n) == [i \in 1..n |-> 0]

\* ------------------------------------------------------------------ results

Native == "Native"
Transparent == "Transparent"

\* The outcome of a call: Ok with a text or byte value (val) or a number (n),
\* Err with the offset up to which the bytes were valid (n), or a panic.
Ok(val, n) == [kind |-> "Ok", val |-> val, n |-> n]
Err(n) == [kind |-> "Err", val |-> <<>>, n |-> n]
Panic == [kind |-> "Panic", val |-> <<>>, n |-> 0]

\* ------------------------------------------------------------------ UTF-8

InRange(b, lo, hi) == lo <= b /\ b <= hi

\* The number of bytes of the well-formed UTF-8 sequence that starts at
\* position i (1-based) of bytes, or 0 when no well-formed sequence starts
\* there (core::str's run_utf8_validation, which String::from_utf8 calls).
Utf8SeqLen(bytes, i) ==
    LET n == Len(bytes)
        b0 == bytes[i]
        Cont(j) == j <= n /\ InRange(bytes[j], 128, 191)
    IN  IF b0 < 128 THEN 1
        ELSE IF InRange(b0, 194, 223)
            THEN IF Cont(i + 1) THEN 2 ELSE 0
        ELSE IF b0 = 224
            THEN IF i + 1 <= n /\ InRange(bytes[i + 1], 160, 191) /\ Cont(i + 2)
                 THEN 3 ELSE 0
        ELSE IF InRange(b0, 225, 236) \/ InRange(b0, 238, 239)
            THEN IF Cont(i + 1) /\ Cont(i + 2) THEN 3 ELSE 0
        ELSE IF b0 = 237
            THEN IF i + 1 <= n /\ InRange(bytes[i + 1], 128, 159) /\ Cont(i + 2)
                 THEN 3 ELSE 0
        ELSE IF b0 = 240
            THEN IF i + 1 <= n /\ InRange(bytes[i + 1], 144, 191)
                    /\ Cont(i + 2) /\ Cont(i + 3)
                 THEN 4 ELSE 0
        ELSE IF InRange(b0, 241, 243)
            THEN IF Cont(i + 1) /\ Cont(i + 2) /\ Cont(i + 3) THEN 4 ELSE 0
        ELSE IF b0 = 244
            THEN IF i + 1 <= n /\ InRange(bytes[i + 1], 128, 143)
                    /\ Cont(i + 2) /\ Cont(i + 3)
                 THEN 4 ELSE 0
        ELSE 0

RECURSIVE ValidUpToFrom(_, _)
ValidUpToFrom(bytes, i) ==
    IF i > Len(bytes) THEN Len(bytes)
    ELSE LET k == Utf8SeqLen(bytes, i)
         IN  IF k = 0 THEN i - 1 ELSE ValidUpToFrom(bytes, i + k)

\* Utf8Error::valid_up_to: the 0-based offset of the first byte that is not
\* part of a well-formed sequence, or the length when every byte is.
ValidUpTo(bytes) == ValidUpToFrom(bytes, 1)

\* FromUtf8 without the validation, as String::from_utf8_unchecked would be.
FromUtf8Unchecked(bytes) == Ok(bytes, 0)

\* String::from_utf8 as text() uses it: Ok with the very same bytes, or Err
\* with the offset up to which the bytes are valid.
FromUtf8(bytes) ==
    IF ValidUpTo(bytes) = Len(bytes) THEN Ok(bytes, 0) ELSE Err(ValidUpTo(bytes))

\* ------------------------------------------------------------------ usize

\* a < b as usize values: a negative integer stands for a value >= 2^63.
ULt(a, b) ==
    IF (a < 0) = (b < 0) THEN a < b ELSE b < 0

UGt(a, b) == ULt(b, a)

UGe(a, b) == ~ULt(a, b)

\* ------------------------------------------------------------------ Blob

\* BlobOptions::default.
DefaultOptions == [endings |-> Transparent, ty |-> {}]

\* Blob::new: the segments, the options (default when absent), no window.
new(parts, o) ==
    [data |-> parts,
     opts |-> IF o = {} THEN DefaultOptions ELSE CHOOSE x \in o : TRUE,
     view |-> {}]

RECURSIVE SumLen(_)
SumLen(parts) ==
    IF parts = <<>> THEN 0 ELSE Len(Head(parts)) + SumLen(Tail(parts))

\* size with the number of segments in place of the sum of their lengths.
sizeOfParts(b, checked) ==
    IF b.view = {}
    THEN Ok(<<>>, Len(b.data))
    ELSE LET v == CHOOSE x \in b.view : TRUE
         IN  IF checked /\ ULt(v[2], v[1]) THEN Panic
             ELSE Ok(<<>>, v[2] - v[1])

\* Blob::size.  With a window it is `to - from` on usize: a build with
\* overflow checks (checked) panics when to < from, a build without them
\* wraps.  Without a window it is the sum of the segment lengths.
size(b, checked) ==
    IF b.view = {}
    THEN Ok(<<>>, SumLen(b.data))
    ELSE LET v == CHOOSE x \in b.view : TRUE
             from == v[1]
             to == v[2]
         IN  IF checked /\ ULt(to, from) THEN Panic ELSE Ok(<<>>, to - from)

\* slice with the options of the blob it is called on kept, the Content-Type
\* replaced only when one is given.
sliceInherit(b, start, end, ty, checked) ==
    LET sz == size(b, checked)
    IN  IF end = {} /\ sz.kind = "Panic"
        THEN {}
        ELSE LET e == IF end = {} THEN sz.n ELSE CHOOSE x \in end : TRUE
             IN  {[data |-> b.data,
                   opts |-> [endings |-> b.opts.endings,
                             ty |-> IF ty = {} THEN b.opts.ty ELSE ty],
                   view |-> {<<start, e>>}]}

\* Blob::slice: the Content-Type is the argument, the policy is Transparent,
\* the window is (start, end) as given, end defaulting to self.size().  No
\* bound is compared with another or with the buffer.
slice(b, start, end, ty, checked) ==
    LET sz == size(b, checked)
    IN  IF end = {} /\ sz.kind = "Panic"
        THEN {}
        ELSE LET e == IF end = {} THEN sz.n ELSE CHOOSE x \in end : TRUE
             IN  {[data |-> b.data,
                   opts |-> [endings |-> Transparent, ty |-> ty],
                   view |-> {<<start, e>>}]}

RECURSIVE CoalesceBytesEarly(_, _, _, _, _)
\* CoalesceBytes with the early return taken one byte too soon (abs >= to).
CoalesceBytesEarly(part, j, from, to, st) ==
    IF j > Len(part) \/ st.ret \/ st.panic THEN st
    ELSE LET abs == st.abs + 1
         IN  IF UGe(from, abs)
             THEN CoalesceBytesEarly(part, j + 1, from, to,
                      [st EXCEPT !.abs = abs])
             ELSE IF UGe(abs, to)
             THEN [st EXCEPT !.abs = abs, !.ret = TRUE]
             ELSE IF st.ptr >= Len(st.buffer)
             THEN [st EXCEPT !.abs = abs, !.panic = TRUE]
             ELSE CoalesceBytesEarly(part, j + 1, from, to,
                      [st EXCEPT !.abs = abs,
                                 !.buffer[st.ptr + 1] = part[j],
                                 !.ptr = st.ptr + 1])

RECURSIVE CoalesceBytes(_, _, _, _, _)
\* The inner loop of coalesce over the bytes of one segment, from its j-th
\* byte on.  st.ret is set when the loop returns the buffer early.
CoalesceBytes(part, j, from, to, st) ==
    IF j > Len(part) \/ st.ret \/ st.panic THEN st
    ELSE LET abs == st.abs + 1
         IN  IF UGe(from, abs)
             THEN CoalesceBytes(part, j + 1, from, to, [st EXCEPT !.abs = abs])
             ELSE IF UGt(abs, to)
             THEN [st EXCEPT !.abs = abs, !.ret = TRUE]
             ELSE IF st.ptr >= Len(st.buffer)
             THEN [st EXCEPT !.abs = abs, !.panic = TRUE]
             ELSE CoalesceBytes(part, j + 1, from, to,
                      [st EXCEPT !.abs = abs,
                                 !.buffer[st.ptr + 1] = part[j],
                                 !.ptr = st.ptr + 1])

RECURSIVE CoalesceParts(_, _, _, _, _)
\* The outer loop of coalesce over the segments, from the k-th on.
CoalesceParts(parts, k, from, to, st) ==
    IF k > Len(parts) \/ st.ret \/ st.panic THEN st
    ELSE LET part == parts[k]
             edge == st.abs + Len(part)
         IN  IF UGt(from, edge)
             THEN CoalesceParts(parts, k + 1, from, to, [st EXCEPT !.abs = edge])
             ELSE CoalesceParts(parts, k + 1, from, to,
                      CoalesceBytes(part, 1, from, to, st))

\* Blob::coalesce: a zero-filled buffer of size() bytes, into which the bytes
\* at absolute positions from..to of the segments are copied in order.  A
\* capacity of 2^63 or more cannot be allocated (capacity overflow).
coalesce(b, checked) ==
    LET sz == size(b, checked)
    IN  IF sz.kind = "Panic" \/ sz.n < 0 THEN Panic
        ELSE LET capacity == sz.n
                 v == IF b.view = {} THEN <<0, capacity>>
                      ELSE CHOOSE x \in b.view : TRUE
                 st == CoalesceParts(b.data, 1, v[1], v[2],
                           [abs |-> 0, ptr |-> 0, buffer |-> Zeros(capacity),
                            ret |-> FALSE, panic |-> FALSE])
             IN  IF st.panic THEN Panic ELSE Ok(st.buffer, 0)

\* ------------------------------------------------------------------ normalizer

RECURSIVE match_indices(_, _, _)
\* str::match_indices: the 0-based offsets of the non-overlapping occurrences
\* of pat in input, left to right, searching from offset i.
match_indices(input, pat, i) ==
    IF i + Len(pat) > Len(input) THEN <<>>
    ELSE IF SubSeq(input, i + 1, i + Len(pat)) = pat
    THEN <<i>> \o match_indices(input, pat, i + Len(pat))
    ELSE match_indices(input, pat, i + 1)

\* The pattern the build searches for: "\n" on a windows target, "\r\n"
\* on every other.
Pattern(win) == IF win THEN <<LF>> ELSE <<CR, LF>>

RECURSIVE NormalizeLoopAlwaysCr(_, _, _, _, _, _)
\* NormalizeLoop with the \r pushed before every \n on windows, whether or
\* not the copied slice ends with one.
NormalizeLoopAlwaysCr(input, win, indices, k, offset, normalized) ==
    IF k > Len(indices) THEN [offset |-> offset, normalized |-> normalized]
    ELSE LET start == indices[k]
             sl == SubSeq(input, offset + 1, start)
             pushed == normalized \o sl
             withCr == IF win THEN pushed \o <<CR>> ELSE pushed
         IN  NormalizeLoopAlwaysCr(input, win, indices, k + 1,
                 start + Len(Pattern(win)), withCr \o <<LF>>)

RECURSIVE NormalizeLoop(_, _, _, _, _, _)
\* The for loop of normalize_line_endings over the matches, from the k-th on.
NormalizeLoop(input, win, indices, k, offset, normalized) ==
    IF k > Len(indices) THEN [offset |-> offset, normalized |-> normalized]
    ELSE LET start == indices[k]
             sl == SubSeq(input, offset + 1, start)
             pushed == normalized \o sl
             withCr == IF win /\ ~(sl # <<>> /\ sl[Len(sl)] = CR)
                       THEN pushed \o <<CR>> ELSE pushed
         IN  NormalizeLoop(input, win, indices, k + 1,
                 start + Len(Pattern(win)), withCr \o <<LF>>)

\* normalize_line_endings: None when the pattern does not occur, else the
\* rebuilt text.
normalize_line_endings(input, win) ==
    LET indices == match_indices(input, Pattern(win), 0)
    IN  IF indices = <<>> THEN {}
        ELSE LET r == NormalizeLoop(input, win, indices, 1, 0, <<>>)
             IN  {IF r.offset <= Len(input)
                  THEN r.normalized \o SubSeq(input, r.offset + 1, Len(input))
                  ELSE r.normalized}

\* Option::unwrap_or.
unwrap_or(o, default) == IF o = {} THEN default ELSE CHOOSE x \in o : TRUE

\* Blob::text: the coalesced bytes validated as UTF-8, then normalized when
\* the policy is Native.
text(b, win, checked) ==
    LET c == coalesce(b, checked)
    IN  IF c.kind = "Panic" THEN Panic
        ELSE LET t == FromUtf8(c.val)
             IN  IF t.kind = "Err" THEN t
                 ELSE IF b.opts.endings = Native
                 THEN Ok(unwrap_or(normalize_line_endings(t.val, win), t.val), 0)
                 ELSE Ok(t.val, 0)

\* ------------------------------------------------------------------ state

VARIABLES
    windows,  \* TRUE when the build targets windows (cfg(target_os))
    data,     \* self.data: the shared list of segments
    opts,     \* self.opts
    view,     \* self.view
    last      \* the last call on the blob: its arguments and its outcome

vars == <<windows, data, opts, view, last>>

\* The blob the calls are made on.
self == [data |-> data, opts |-> opts, view |-> view]

\* A call record: the operation, the arguments of slice (start, end, ty) and
\* the policy of the blob it was called on (recv), the text handed to the
\* normalizer (arg), and the outcome.
Call(op, start, end, ty, recv, arg, out) ==
    [op |-> op, start |-> start, end |-> end, ty |-> ty, recv |-> recv,
     arg |-> arg, kind |-> out.kind, val |-> out.val, n |-> out.n]

\* The Content-Type strings the calls draw from.
Types == {{}, {"text/plain"}}

OptionsSet == [endings : {Native, Transparent}, ty : Types]

\* The segment lists Blob::new is called with.
PartLists ==
    {p \in UNION {[1..k -> SeqsUpTo(BlobBytes, MaxTotal)] : k \in 0..MaxParts} :
        SumLen(p) <= MaxTotal}

\* The state after Blob::new(parts, opts) on either build target.
Init ==
    /\ windows \in BOOLEAN
    /\ \E parts \in PartLists, o \in {{}} \cup {{x} : x \in OptionsSet} :
        LET b == new(parts, o)
        IN  /\ data = b.data
            /\ opts = b.opts
            /\ view = b.view
    /\ last = Call("new", {}, {}, {}, "", <<>>, Ok(<<>>, 0))

\* A panic ends the thread that made the call.
Running == last.kind # "Panic"

\* size() and text() borrow the blob and change nothing, so a slice made
\* after one of them is the slice made without it: the calls on a blob are
\* modelled as a chain of slices that ends with one of them.
Unread == last.op \in {"new", "slice"}

\* The builds whose outcomes differ on b: `to - from` panics with overflow
\* checks and wraps without them, when the window of b has to < from.
Builds(b) == IF size(b, TRUE).kind = "Panic" THEN BOOLEAN ELSE {TRUE}

\* self.slice(start, end, ty): the blob is replaced by the slice, unless the
\* call panics in self.size().  Window ends that wrapped around are followed
\* down to 2^64 - MaxWrap.
Slice ==
    /\ Running
    /\ Unread
    /\ \E start \in 0..MaxIdx,
          end \in {{}} \cup {{e} : e \in 0..MaxIdx},
          ty \in Types :
        \E checked \in (IF end = {} THEN Builds(self) ELSE {TRUE}) :
            LET r == slice(self, start, end, ty, checked)
            IN  IF r = {}
                THEN /\ last' = Call("slice", {start}, end, ty, opts.endings,
                                     <<>>, Panic)
                     /\ UNCHANGED <<data, opts, view>>
                ELSE LET b == CHOOSE x \in r : TRUE
                         to == (CHOOSE x \in b.view : TRUE)[2]
                     IN  /\ -MaxWrap <= to
                         /\ data' = b.data
                         /\ opts' = b.opts
                         /\ view' = b.view
                         /\ last' = Call("slice", {start}, end, ty,
                                         opts.endings, <<>>, Ok(<<>>, 0))
    /\ UNCHANGED windows

\* self.size().
Size ==
    /\ Running
    /\ Unread
    /\ \E checked \in Builds(self) :
        last' = Call("size", {}, {}, {}, "", <<>>, size(self, checked))
    /\ UNCHANGED <<windows, data, opts, view>>

\* self.text().
Text ==
    /\ Running
    /\ Unread
    /\ \E checked \in Builds(self) :
        last' = Call("text", {}, {}, {}, "", <<>>, text(self, windows, checked))
    /\ UNCHANGED <<windows, data, opts, view>>

Next == Slice \/ Size \/ Text

Spec == Init /\ [][Next]_vars

\* ------------------------------------------------------------------ normalizer runs

\* The outcome of normalize_line_endings as a call outcome.
Normalized(o) ==
    IF o = {} THEN [kind |-> "None", val |-> <<>>, n |-> 0]
    ELSE [kind |-> "Some", val |-> CHOOSE x \in o : TRUE, n |-> 0]

\* The text a call of the normalizer leaves its caller with:
\* normalize_line_endings(&text).unwrap_or(text).
Resulting(c) == IF c.kind = "Some" THEN c.val ELSE c.arg

\* The state after Blob::new(vec![t], Some(options)) for a text t.
InitText ==
    /\ windows \in BOOLEAN
    /\ \E t \in SeqsUpTo(TextBytes, MaxText), e \in {Native, Transparent} :
        LET b == new(<<t>>, {[endings |-> e, ty |-> {}]})
        IN  /\ data = b.data
            /\ opts = b.opts
            /\ view = b.view
    /\ last = Call("new", {}, {}, {}, "", <<>>, Ok(<<>>, 0))

\* normalize_line_endings(&text) on the decoded text of a Native blob, the
\* call text() makes.
Normalize ==
    /\ Unread
    /\ opts.endings = Native
    /\ LET t == FromUtf8(Concat(data))
       IN  /\ t.kind = "Ok"
           /\ last' = Call("normalize_line_endings", {}, {}, {}, "", t.val,
                           Normalized(normalize_line_endings(t.val, windows)))
    /\ UNCHANGED <<windows, data, opts, view>>

\* normalize_line_endings again, on the text the previous call resulted in.
Renormalize ==
    /\ last.op \in {"normalize_line_endings", "renormalize"}
    /\ LET t == Resulting(last)
       IN  last' = Call("renormalize", {}, {}, {}, "", t,
                       Normalized(normalize_line_endings(t, windows)))
    /\ UNCHANGED <<windows, data, opts, view>>

NextText == Text \/ Normalize \/ Renormalize

SpecText == InitText /\ [][NextText]_vars

\* ------------------------------------------------------------------ properties

\* The underlying buffer: the segments in order, and its original length.
Buffer == Concat(data)
BufLen == Len(Buffer)

\* The window of a sliced blob.
From == (CHOOSE x \in view : TRUE)[1]
To == (CHOOSE x \in view : TRUE)[2]

\* The argument of the last slice call.
StartArg == CHOOSE x \in last.start : TRUE
EndArg == CHOOSE x \in last.end : TRUE

\* The window of the blob lies within the buffer (a root blob shows all of it).
WithinBuffer == view = {} \/ (0 <= From /\ From <= To /\ To <= BufLen)

\* C1: a slice(a, Some(c), _) with 0 <= a < c <= length of the buffer has
\* size c - a, and its bytes are bytes a..c (end exclusive) of the in-order
\* concatenation of the segments, on every build.
C1_SliceBytes ==
    (last.op = "slice" /\ last.kind = "Ok" /\ last.end # {}) =>
        LET a == StartArg
            c == EndArg
        IN  (0 <= a /\ a < c /\ c <= BufLen) =>
                \A checked \in BOOLEAN :
                    /\ size(self, checked) = Ok(<<>>, c - a)
                    /\ coalesce(self, checked) = Ok(SubSeq(Buffer, a + 1, c), 0)

\* A slice of a two-segment blob that spans the segment boundary, and one
\* that skips an empty first segment, have been taken.
C1_Witness ==
    /\ last.op = "slice"
    /\ last.kind = "Ok"
    /\ last.start = {0}
    /\ last.end = {2}
    /\ Len(data) = 2
    /\ Len(data[1]) = 1
    /\ Len(data[2]) = 1
    /\ data[1] # data[2]
    /\ coalesce(self, TRUE).val = Buffer

\* C2 (as claimed): a slice call with start >= end, or with start or end
\* outside the window of the blob it is called on, fails with an error and
\* produces no blob.
C2_OutOfRange ==
    [][(last'.op = "slice" /\ last'.end # {}) =>
        LET a == CHOOSE x \in last'.start : TRUE
            c == CHOOSE x \in last'.end : TRUE
            lo == IF view = {} THEN 0 ELSE From
            hi == IF view = {} THEN BufLen ELSE To
        IN  (a >= c \/ a < lo \/ a > hi \/ c < lo \/ c > hi) =>
                (last'.kind = "Err" /\ view' = view /\ opts' = opts)]_vars

\* C3 (as claimed): the window of every blob satisfies
\* 0 <= from <= to <= length of the buffer.
C3_WindowInvariant == WithinBuffer

\* C10 (as claimed): slice(start, None, _) ends the new window at the
\* original length of the underlying buffer.
C10_EndDefault ==
    (last.op = "slice" /\ last.end = {}) =>
        (last.kind = "Ok" /\ view # {} /\ To = BufLen)

\* The UTF-8 encodings of the characters the specifications draw their bytes
\* from: U+0000 (the zero padding), \n, \r, "a" and U+00E9.
Characters == {<<0>>, <<LF>>, <<CR>>, <<97>>, <<195, 169>>}

RECURSIVE WholeCharacters(_, _)
\* The length of the longest prefix of w, from offset i on, that is a
\* sequence of whole characters.
WholeCharacters(w, i) ==
    IF \E ch \in Characters :
           i + Len(ch) <= Len(w) /\ SubSeq(w, i + 1, i + Len(ch)) = ch
    THEN LET ch == CHOOSE x \in Characters :
                       i + Len(x) <= Len(w) /\ SubSeq(w, i + 1, i + Len(x)) = x
         IN  WholeCharacters(w, i + Len(ch))
    ELSE i

\* w is the UTF-8 encoding of a text.
IsText(w) == WholeCharacters(w, 0) = Len(w)

\* C4: text() of an unsliced blob under the Transparent policy, built from
\* segments whose concatenation is valid UTF-8, is that concatenation, and
\* is what text() of the blob built from the single concatenated buffer is.
C4_RoundTrip ==
    (last.op = "text" /\ view = {} /\ opts.endings = Transparent
        /\ IsText(Buffer)) =>
        /\ last.kind = "Ok"
        /\ last.val = Buffer
        /\ text(new(<<Buffer>>, {opts}), windows, TRUE) = Ok(last.val, 0)

\* text() has decoded a two-segment blob whose boundary splits a character.
C4_Witness ==
    /\ last.op = "text"
    /\ view = {}
    /\ opts.endings = Transparent
    /\ data = <<(<<195>>), (<<169>>)>>
    /\ last.kind = "Ok"
    /\ last.val = <<195, 169>>

\* C7: a blob returned by slice has policy Transparent and the Content-Type
\* of the call, whatever the blob it was called on; every sliced blob has
\* policy Transparent, and text() on it returns the bytes of its window as
\* coalesce yields them, with no line ending rewritten.
C7_SliceOptions ==
    /\ (last.op = "slice" /\ last.kind = "Ok") =>
           opts = [endings |-> Transparent, ty |-> last.ty]
    /\ view # {} => opts.endings = Transparent
    /\ (last.op = "text" /\ view # {} /\ last.kind = "Ok") =>
           \A checked \in Builds(self) :
               last.val = coalesce(self, checked).val

\* A Native blob with a Content-Type has been sliced, with no Content-Type,
\* on a windows build, and the window holds a lone \n, which text() on the
\* slice returns as it is and text() on a Native blob does not.
C7_Witness ==
    /\ last.op = "slice"
    /\ last.kind = "Ok"
    /\ last.recv = Native
    /\ last.ty = {}
    /\ opts.ty = {}
    /\ windows
    /\ view = {<<0, 1>>}
    /\ text(self, windows, TRUE) = Ok(<<LF>>, 0)
    /\ text([self EXCEPT !.opts.endings = Native], windows, TRUE)
           = Ok(<<CR, LF>>, 0)

\* The bytes of the window of the blob: those of the buffer when the window
\* lies within it, else what coalesce yields.
WindowBytes ==
    IF view = {} THEN Buffer
    ELSE IF WithinBuffer THEN SubSeq(Buffer, From + 1, To)
    ELSE coalesce(self, TRUE).val

\* C8: text() returns a text when the bytes of the window are valid UTF-8,
\* and otherwise an error that holds the offset of the first invalid byte;
\* it returns one of the two for every blob whose window lies within the
\* buffer, and ends otherwise only where coalesce ends without a buffer.
C8_InvalidEncoding ==
    last.op = "text" =>
        /\ WithinBuffer => last.kind # "Panic"
        /\ last.kind = "Panic" => coalesce(self, TRUE).kind = "Panic"
        /\ last.kind # "Panic" =>
               IF IsText(WindowBytes)
               THEN last.kind = "Ok"
               ELSE /\ last.kind = "Err"
                    /\ last.n = WholeCharacters(WindowBytes, 0)

\* text() has failed on a slice whose range cuts a two-byte character.
C8_Witness ==
    /\ last.op = "text"
    /\ data = <<(<<195, 169>>)>>
    /\ view = {<<0, 1>>}
    /\ last.kind = "Err"
    /\ last.n = 0

RECURSIVE CrlfToLf(_, _)
\* t from position i on, with every \r\n replaced by \n.
CrlfToLf(t, i) ==
    IF i > Len(t) THEN <<>>
    ELSE IF t[i] = CR /\ i < Len(t) /\ t[i + 1] = LF
    THEN <<LF>> \o CrlfToLf(t, i + 2)
    ELSE <<t[i]>> \o CrlfToLf(t, i + 1)

RECURSIVE LoneLfToCrlf(_, _)
\* t from position i on, with every \n that no \r precedes replaced by \r\n.
LoneLfToCrlf(t, i) ==
    IF i > Len(t) THEN <<>>
    ELSE IF t[i] = LF /\ (i = 1 \/ t[i - 1] # CR)
    THEN <<CR, LF>> \o LoneLfToCrlf(t, i + 1)
    ELSE <<t[i]>> \o LoneLfToCrlf(t, i + 1)

\* C5: text() of a Native blob is the decoded text with every \r\n replaced
\* by \n on a build that is not for windows, and with every \n that no \r
\* precedes replaced by \r\n on a build for windows; all else is kept.
C5_NativeText ==
    (last.op = "text" /\ opts.endings = Native /\ view = {}) =>
        /\ last.kind = "Ok"
        /\ last.val = IF windows THEN LoneLfToCrlf(Buffer, 1)
                      ELSE CrlfToLf(Buffer, 1)

\* text() of a Native blob has rewritten a lone \n and kept a \r\n on a
\* windows build.
C5_Witness ==
    /\ last.op = "text"
    /\ opts.endings = Native
    /\ windows
    /\ Buffer = <<CR, LF, 97, LF>>
    /\ last.val = <<CR, LF, 97, CR, LF>>

\* C6 (as claimed): normalizing the text a normalization resulted in results
\* in that same text.
C6_Idempotent ==
    last.op = "renormalize" => Resulting(last) = last.arg

\* t holds only the native terminator of the build: no \r\n when it is not
\* for windows, no \n without a \r before it when it is.
OnlyNative(t, win) ==
    IF win
    THEN \A i \in 1..Len(t) : t[i] = LF => (i > 1 /\ t[i - 1] = CR)
    ELSE \A i \in 1..Len(t) : ~(t[i] = CR /\ i < Len(t) /\ t[i + 1] = LF)

\* C9 (as claimed): normalize_line_endings returns None for every text that
\* holds only the native terminator of the build.
C9_NoOp ==
    (last.op \in {"normalize_line_endings", "renormalize"}
        /\ OnlyNative(last.arg, windows)) => last.kind = "None"

====
